---------------------------- MODULE Spec2Model ----------------------------
(***************************************************************************)
(* Model of the VRAM estimation and remediation-search engine of           *)
(* NEBUL-AI/HF-VRAM-Extension:                                             *)
(*   src/calculate/fine-tune.py   training estimate and suggestion search  *)
(*   src/calculate/inference.py   inference estimate and suggestion search *)
(*   src/src/vram_calculator.py   command-line estimate                    *)
(*                                                                         *)
(* Numbers.  The Python code computes in floating point.  The model        *)
(* computes the same expressions over the exact rationals: a memory        *)
(* quantity is a rational number of bytes (1 GB = 10^9 bytes, the code's   *)
(* 10**9), held as [n |-> numerator, d |-> denominator] where the          *)
(* numerator is an arbitrary-size natural (a little-endian sequence of     *)
(* base-1000 limbs, because TLC integers are 32 bit) and the denominator a *)
(* small positive integer.  Inputs are therefore non-negative; 0 is the    *)
(* representative of the non-positive inputs.  Floating-point rounding     *)
(* error (a relative 1e-16) is not modelled.                               *)
(*                                                                         *)
(* Units of the inputs: parameter counts are in hundredths of a billion    *)
(* (685 is 6.85B), GPU capacity is in thousandths of a GB (24000 is 24 GB),*)
(* values rounded to two decimals (Python round(x, 2)) are integers in     *)
(* hundredths (12791 is 127.91).                                           *)
(***************************************************************************)
EXTENDS Integers, Sequences, FiniteSets, TLC

-----------------------------------------------------------------------------
(* Exact arithmetic: naturals of any size, base-1000 limbs, least first.   *)

RECURSIVE GCD(_, _)
GCD(a, b) == IF b = 0 THEN a ELSE GCD(b, a % b)

LCM(a, b) == (a \div GCD(a, b)) * b

RECURSIVE BNorm(_)
BNorm(a) ==
    IF a = <<>> THEN <<>>
    ELSE IF a[Len(a)] = 0 THEN BNorm(SubSeq(a, 1, Len(a) - 1))
    ELSE a

RECURSIVE BFromNat(_)
BFromNat(k) == IF k = 0 THEN <<>> ELSE <<k % 1000>> \o BFromNat(k \div 1000)

RECURSIVE BToNat(_)
BToNat(a) == IF a = <<>> THEN 0 ELSE Head(a) + 1000 * BToNat(Tail(a))

RECURSIVE BMulC(_, _, _)
BMulC(a, k, c) ==
    IF a = <<>> THEN BFromNat(c)
    ELSE LET t == Head(a) * k + c
         IN  <<t % 1000>> \o BMulC(Tail(a), k, t \div 1000)

\* a * k for a small natural k (k below 2 000 000 keeps every step in range)
BMulSmall(a, k) == IF k = 0 THEN <<>> ELSE BMulC(a, k, 0)

RECURSIVE BAddC(_, _, _)
BAddC(a, b, c) ==
    IF a = <<>> /\ b = <<>> THEN BFromNat(c)
    ELSE LET x == IF a = <<>> THEN 0 ELSE Head(a)
             y == IF b = <<>> THEN 0 ELSE Head(b)
             t == x + y + c
         IN  <<t % 1000>> \o
             BAddC(IF a = <<>> THEN a ELSE Tail(a),
                   IF b = <<>> THEN b ELSE Tail(b), t \div 1000)

BAdd(a, b) == BAddC(a, b, 0)

\* -1, 0, 1 as a < b, a = b, a > b (normalised operands), most significant first
RECURSIVE BCmpFrom(_, _, _)
BCmpFrom(a, b, i) ==
    IF i = 0 THEN 0
    ELSE IF a[i] < b[i] THEN -1
    ELSE IF a[i] > b[i] THEN 1
    ELSE BCmpFrom(a, b, i - 1)

BCmp(a, b) ==
    IF Len(a) < Len(b) THEN -1
    ELSE IF Len(a) > Len(b) THEN 1
    ELSE BCmpFrom(a, b, Len(a))

BLeq(a, b) == BCmp(a, b) <= 0

\* a div k and a mod k for a small natural k > 0, from limb i down with the
\* remainder rem carried in: <<quotient limbs, remainder>>
RECURSIVE BDivFrom(_, _, _, _)
BDivFrom(a, k, i, rem) ==
    IF i = 0 THEN <<(<<>>), rem>>
    ELSE LET cur  == rem * 1000 + a[i]
             rest == BDivFrom(a, k, i - 1, cur % k)
         IN  <<rest[1] \o <<cur \div k>>, rest[2]>>

NormQuotient(r) == <<BNorm(r[1]), r[2]>>

BDivSmall(a, k) == NormQuotient(BDivFrom(a, k, Len(a), 0))

\* <<floor(a / (f1 * ... * fm)), whether the division is exact>> for a
\* sequence f of small naturals > 0
RECURSIVE BDivAll(_, _)
BDivAll(a, f) ==
    IF f = <<>> THEN <<a, TRUE>>
    ELSE LET qr   == BDivSmall(a, Head(f))
             rest == BDivAll(qr[1], Tail(f))
         IN  <<rest[1], rest[2] /\ qr[2] = 0>>

\* half of twoq rounded to the nearest natural, ties to the even one
\* (Python's round); exact tells that twoq is the whole of twice the value
RoundHalfEven(twoq, exact) ==
    IF twoq % 2 = 0 THEN twoq \div 2
    ELSE IF ~exact THEN twoq \div 2 + 1
    ELSE IF (twoq \div 2) % 2 = 0 THEN twoq \div 2 ELSE twoq \div 2 + 1

RoundOfTwice(t) == RoundHalfEven(BToNat(t[1]), t[2])

\* a / (f1 * ... * fm) rounded to the nearest natural, ties to the even one
BRoundDiv(a, f) == RoundOfTwice(BDivAll(BMulSmall(a, 2), f))

-----------------------------------------------------------------------------
(* Exact rationals n/d, n of any size, d a small positive integer.         *)

QInt(k) == [n |-> BFromNat(k), d |-> 1]

\* x * a / b for small naturals a and b > 0, the denominator kept reduced
\* against a
QMul(x, a, b) ==
    LET g1 == GCD(a, b)
        a1 == a \div g1
        g2 == GCD(a1, x.d)
    IN  [n |-> BMulSmall(x.n, a1 \div g2), d |-> (x.d \div g2) * (b \div g1)]

QAdd(x, y) ==
    LET l == LCM(x.d, y.d)
    IN  [n |-> BAdd(BMulSmall(x.n, l \div x.d), BMulSmall(y.n, l \div y.d)),
         d |-> l]

QCmp(x, y) == BCmp(BMulSmall(x.n, y.d), BMulSmall(y.n, x.d))

QLeq(x, y) == QCmp(x, y) <= 0

QEq(x, y) == QCmp(x, y) = 0

QZero(x) == x.n = <<>>

\* x * 10^9: a quantity of GB in bytes (the code's 10**9)
Giga(x) == [n |-> IF x.n = <<>> THEN <<>> ELSE <<0, 0, 0>> \o x.n, d |-> x.d]

\* round(x, 2) of a quantity x of bytes taken in GB, in hundredths of a GB
Round2(x) == BRoundDiv(x.n, <<x.d, 10000, 1000>>)

-----------------------------------------------------------------------------
(* The lookup tables.  A table key such as "7B" is the sequence of its     *)
(* characters; a real-valued entry is the pair <<numerator, denominator>>. *)

\* numerator and denominator of the unit of params_billions: 1/100 billion
PARAMS_UNIT == 100

\* unit of gpu_vram: 1/1000 GB
GPU_UNIT == 1000

DEFAULT_ARCHITECTURES == <<
    [key |-> <<"1", "B">>,           hidden_dim |-> 2048,  num_layers |-> 22],
    [key |-> <<"3", "B">>,           hidden_dim |-> 3072,  num_layers |-> 26],
    [key |-> <<"7", "B">>,           hidden_dim |-> 4096,  num_layers |-> 32],
    [key |-> <<"1", "3", "B">>,      hidden_dim |-> 5120,  num_layers |-> 40],
    [key |-> <<"3", "0", "B">>,      hidden_dim |-> 7168,  num_layers |-> 60],
    [key |-> <<"6", "5", "B">>,      hidden_dim |-> 8192,  num_layers |-> 80],
    [key |-> <<"1", "2", "0", "B">>, hidden_dim |-> 12288, num_layers |-> 96],
    [key |-> <<"4", "0", "5", "B">>, hidden_dim |-> 16384, num_layers |-> 120],
    [key |-> <<"6", "7", "1", "B">>, hidden_dim |-> 20480, num_layers |-> 160] >>

\* fine-tune.py's table
FT_PRECISION_BYTES ==
    [FP32 |-> <<4, 1>>, FP16 |-> <<2, 1>>, BF16 |-> <<2, 1>>,
     INT8 |-> <<1, 1>>, INT4 |-> <<1, 2>>]

\* inference.py's table
PRECISION_BYTES ==
    [FP32 |-> <<4, 1>>, FP16 |-> <<2, 1>>, BF16 |-> <<2, 1>>,
     INT8 |-> <<1, 1>>, Q8 |-> <<1, 1>>, INT4 |-> <<1, 2>>, Q4 |-> <<1, 2>>,
     Q5 |-> <<5, 8>>, Q6 |-> <<3, 4>>, Q2 |-> <<1, 4>>]

\* mutation: the quantized method keeping its weights at 32 bits
FINETUNING_METHODS_UNQUANTIZED ==
    [full  |-> [model_weight_precision  |-> "FP16",
                optimizer_states_factor |-> <<4, 1>>,
                activation_factor       |-> <<2, 1>>,
                gradient_checkpointing  |-> FALSE],
     lora  |-> [model_weight_precision  |-> "FP16",
                optimizer_states_factor |-> <<1, 10>>,
                activation_factor       |-> <<1, 1>>,
                gradient_checkpointing  |-> TRUE,
                adapter_overhead        |-> <<1, 20>>],
     qlora |-> [model_weight_precision  |-> "FP32",
                optimizer_states_factor |-> <<1, 10>>,
                activation_factor       |-> <<1, 2>>,
                gradient_checkpointing  |-> TRUE,
                adapter_overhead        |-> <<1, 20>>]]

FINETUNING_METHODS ==
    [full  |-> [model_weight_precision  |-> "FP16",
                optimizer_states_factor |-> <<4, 1>>,
                activation_factor       |-> <<2, 1>>,
                gradient_checkpointing  |-> FALSE],
     lora  |-> [model_weight_precision  |-> "FP16",
                optimizer_states_factor |-> <<1, 10>>,
                activation_factor       |-> <<1, 1>>,
                gradient_checkpointing  |-> TRUE,
                adapter_overhead        |-> <<1, 20>>],
     qlora |-> [model_weight_precision  |-> "INT4",
                optimizer_states_factor |-> <<1, 10>>,
                activation_factor       |-> <<1, 2>>,
                gradient_checkpointing  |-> TRUE,
                adapter_overhead        |-> <<1, 20>>]]

\* the GPU catalog, GB of VRAM by device name (the same in both engines)
COMMON_GPUS ==
    [name \in {"RTX 3060", "RTX 3070", "RTX 3080", "RTX 3090", "RTX 4060",
               "RTX 4070", "RTX 4080", "RTX 4090", "RTX 6000", "A100-40G",
               "A100-80G", "H100", "H200"} |->
        CASE name \in {"RTX 3070", "RTX 4060"} -> 8
          [] name = "RTX 3080" -> 10
          [] name \in {"RTX 3060", "RTX 4070"} -> 12
          [] name = "RTX 4080" -> 16
          [] name \in {"RTX 3090", "RTX 4090"} -> 24
          [] name = "A100-40G" -> 40
          [] name = "RTX 6000" -> 48
          [] name \in {"A100-80G", "H100"} -> 80
          [] name = "H200" -> 141]

\* the module-level names of the two engines, as bound when they are loaded
ModuleGlobals ==
    [DEFAULT_ARCHITECTURES |-> DEFAULT_ARCHITECTURES,
     PRECISION_BYTES       |-> [finetune |-> FT_PRECISION_BYTES,
                                inference |-> PRECISION_BYTES],
     COMMON_GPUS           |-> COMMON_GPUS,
     FINETUNING_METHODS    |-> FINETUNING_METHODS]

\* dict.get(key, default)
DictGet(dict, key, default) ==
    IF key \in DOMAIN dict THEN dict[key] ELSE default

-----------------------------------------------------------------------------
(* Architecture resolution (fine-tune.py 93-131, the same in inference.py) *)

DigitValue(c) ==
    CASE c = "0" -> 0 [] c = "1" -> 1 [] c = "2" -> 2 [] c = "3" -> 3
      [] c = "4" -> 4 [] c = "5" -> 5 [] c = "6" -> 6 [] c = "7" -> 7
      [] c = "8" -> 8 [] c = "9" -> 9

\* str.rstrip("B")
RECURSIVE RStripB(_)
RStripB(s) ==
    IF s # <<>> /\ s[Len(s)] = "B" THEN RStripB(SubSeq(s, 1, Len(s) - 1))
    ELSE s

\* float() of a string of digits, in the unit of params_billions
RECURSIVE ParseDigits(_)
ParseDigits(s) ==
    IF s = <<>> THEN 0
    ELSE 10 * ParseDigits(SubSeq(s, 1, Len(s) - 1)) + DigitValue(s[Len(s)])

ParseFloat(s) == PARAMS_UNIT * ParseDigits(s)

\* the sort key of sorted(): lambda x: float(x.rstrip("B"))
ArchSortKey(x) == ParseFloat(RStripB(x))

\* sorted(keys, key = ...): a stable insertion sort, the last key placed first
RECURSIVE InsertSorted(_, _)
InsertSorted(x, sortedKeys) ==
    IF sortedKeys = <<>> THEN <<x>>
    ELSE IF ArchSortKey(x) <= ArchSortKey(Head(sortedKeys))
         THEN <<x>> \o sortedKeys
         ELSE <<Head(sortedKeys)>> \o InsertSorted(x, Tail(sortedKeys))

RECURSIVE SortedKeys(_)
SortedKeys(keys) ==
    IF keys = <<>> THEN <<>>
    ELSE InsertSorted(Head(keys), SortedKeys(Tail(keys)))

ArchKeys == [i \in DOMAIN DEFAULT_ARCHITECTURES |-> DEFAULT_ARCHITECTURES[i].key]

SortedArchs == SortedKeys(ArchKeys)

\* mutation: the comparison of the loop made strict
RECURSIVE FirstGreater(_, _)
FirstGreater(sorted_archs, params_billions) ==
    IF sorted_archs = <<>> THEN <<>>
    ELSE IF ArchSortKey(Head(sorted_archs)) > params_billions
         THEN Head(sorted_archs)
         ELSE FirstGreater(Tail(sorted_archs), params_billions)

\* the for loop of get_closest_architecture: the first key >= the target
RECURSIVE FirstAtLeast(_, _)
FirstAtLeast(sorted_archs, params_billions) ==
    IF sorted_archs = <<>> THEN <<>>
    ELSE IF ArchSortKey(Head(sorted_archs)) >= params_billions
         THEN Head(sorted_archs)
         ELSE FirstAtLeast(Tail(sorted_archs), params_billions)

\* the return after the loop: the largest architecture
FoundOrLargest(found, sorted_archs) ==
    IF found # <<>> THEN found ELSE sorted_archs[Len(sorted_archs)]

ClosestIn(sorted_archs, params_billions) ==
    FoundOrLargest(FirstAtLeast(sorted_archs, params_billions), sorted_archs)

get_closest_architecture(params_billions) ==
    ClosestIn(SortedArchs, params_billions)

\* DEFAULT_ARCHITECTURES[key]
ArchEntry(key) ==
    DEFAULT_ARCHITECTURES[CHOOSE i \in DOMAIN DEFAULT_ARCHITECTURES :
                              DEFAULT_ARCHITECTURES[i].key = key]

ArchDims(entry) == <<entry.hidden_dim, entry.num_layers>>

get_architecture_details(params_billions) ==
    ArchDims(ArchEntry(get_closest_architecture(params_billions)))

-----------------------------------------------------------------------------
(* Component calculators of fine-tune.py.  Memory values are exact         *)
(* rationals in bytes; the code's GB value is the value here over 10^9.    *)

\* num_params * bytes_per_param
ft_calculate_model_weights(num_params, precision) ==
    LET bytes_per_param == FT_PRECISION_BYTES[precision]
    IN  QMul(Giga(QMul(QInt(num_params), 1, PARAMS_UNIT)),
             bytes_per_param[1], bytes_per_param[2])

\* model_weights * activation_factor
ft_calculate_activation_memory(model_weights, activation_factor) ==
    QMul(model_weights, activation_factor[1], activation_factor[2])

\* mutation: the optimizer states taken as one copy of the weights
ft_calculate_optimizer_states_single(model_weights, optimizer_factor) ==
    model_weights

\* model_weights * optimizer_factor
ft_calculate_optimizer_states(model_weights, optimizer_factor) ==
    QMul(model_weights, optimizer_factor[1], optimizer_factor[2])

\* mutation: the accumulation steps multiply the batch instead of dividing it
ft_calculate_kv_cache_multiplied(hidden_dim, num_layers, batch_size, seq_length, precision) ==
    QMul(QMul(QMul(QMul(QMul(QInt(hidden_dim), 2, 1),
                        FT_PRECISION_BYTES[precision][1],
                        FT_PRECISION_BYTES[precision][2]),
                   num_layers, 1),
              seq_length, 1),
         batch_size[1] * batch_size[2], 1)

\* batch_size * seq_length * ((hidden_dim * 2 * bytes * num_layers) / 10**9);
\* batch_size is the effective batch size, a pair <<numerator, denominator>>
ft_calculate_kv_cache(hidden_dim, num_layers, batch_size, seq_length, precision) ==
    LET bytes_per_element  == FT_PRECISION_BYTES[precision]
        kv_cache_per_token ==
            QMul(QMul(QMul(QInt(hidden_dim), 2, 1),
                      bytes_per_element[1], bytes_per_element[2]),
                 num_layers, 1)
    IN  QMul(QMul(kv_cache_per_token, seq_length, 1),
             batch_size[1], batch_size[2])

\* activation_memory * 0.25
calculate_gradient_checkpointing_savings(activation_memory) ==
    QMul(activation_memory, 1, 4)

\* the training overhead factor 1.2
TRAINING_OVERHEAD == <<6, 5>>

\* if adapter_overhead > 0: base_vram += model_weights * adapter_overhead
WithAdapter(base_vram, model_weights, adapter_overhead) ==
    IF adapter_overhead[1] > 0
    THEN QAdd(base_vram, QMul(model_weights, adapter_overhead[1],
                              adapter_overhead[2]))
    ELSE base_vram

\* mutation: the overhead also applied to the weights before the sum
calculate_total_training_vram_compounded(model_weights, activation_memory, optimizer_states, kv_cache, adapter_overhead, use_gradient_checkpointing) ==
    QMul(WithAdapter(
             QAdd(QAdd(QAdd(QMul(model_weights, TRAINING_OVERHEAD[1],
                                 TRAINING_OVERHEAD[2]),
                            IF use_gradient_checkpointing
                            THEN calculate_gradient_checkpointing_savings(
                                     activation_memory)
                            ELSE activation_memory),
                       optimizer_states),
                  kv_cache),
             model_weights, adapter_overhead),
         TRAINING_OVERHEAD[1], TRAINING_OVERHEAD[2])

calculate_total_training_vram(model_weights, activation_memory, optimizer_states, kv_cache, adapter_overhead, use_gradient_checkpointing) ==
    QMul(WithAdapter(
             QAdd(QAdd(QAdd(model_weights,
                            IF use_gradient_checkpointing
                            THEN calculate_gradient_checkpointing_savings(
                                     activation_memory)
                            ELSE activation_memory),
                       optimizer_states),
                  kv_cache),
             model_weights, adapter_overhead),
         TRAINING_OVERHEAD[1], TRAINING_OVERHEAD[2])

\* gpu_vram * num_gpus, in bytes
TotalAvailable(gpu_vram, num_gpus) ==
    QMul(Giga(QMul(QInt(gpu_vram), 1, GPU_UNIT)), num_gpus, 1)

\* mutation: the comparison made strict
will_model_fit_strict(total_vram, gpu_vram, num_gpus) ==
    ~QLeq(QMul(TotalAvailable(gpu_vram, num_gpus), 19, 20), total_vram)

\* total_vram <= gpu_vram * num_gpus * 0.95
will_model_fit(total_vram, gpu_vram, num_gpus) ==
    LET available_vram == QMul(TotalAvailable(gpu_vram, num_gpus), 19, 20)
    IN  QLeq(total_vram, available_vram)

-----------------------------------------------------------------------------
(* compute_finetuning_requirements (fine-tune.py 294-389).  A training     *)
(* configuration is the record of the function's arguments.                *)

\* mutation: no share at all without devices
VramPerGpuZero(total_vram, num_gpus) ==
    IF num_gpus > 0 THEN QMul(total_vram, 1, num_gpus) ELSE QInt(0)

\* total_vram / num_gpus if num_gpus > 0 else total_vram
VramPerGpu(total_vram, num_gpus) ==
    IF num_gpus > 0 THEN QMul(total_vram, 1, num_gpus) ELSE total_vram

\* lines 327-341: the KV cache of the effective batch size
\* batch_size / grad_accum_steps
ft_kv_cache(c, method_config, arch) ==
    ft_calculate_kv_cache(arch[1], arch[2],
                          <<c.batch_size, c.grad_accum_steps>>, c.seq_length,
                          method_config.model_weight_precision)

\* lines 322-345: the components of the workload c, exact
ft_components(c, method_config, arch, model_weights) ==
    [hidden_dim                 |-> arch[1],
     num_layers                 |-> arch[2],
     effective_batch_size       |-> <<c.batch_size, c.grad_accum_steps>>,
     model_weights              |-> model_weights,
     activation_memory          |-> ft_calculate_activation_memory(
                                        model_weights,
                                        method_config.activation_factor),
     optimizer_states           |-> ft_calculate_optimizer_states(
                                        model_weights,
                                        method_config.optimizer_states_factor),
     kv_cache                   |-> ft_kv_cache(c, method_config, arch),
     adapter_overhead           |-> DictGet(method_config, "adapter_overhead",
                                            <<0, 1>>),
     use_gradient_checkpointing |-> DictGet(method_config,
                                            "gradient_checkpointing", FALSE)]

\* lines 347-368: the total of the components, its share and the verdict
ft_totals(c, total_vram) ==
    [total_vram           |-> total_vram,
     vram_per_gpu         |-> VramPerGpu(total_vram, c.num_gpus),
     will_fit             |-> will_model_fit(total_vram, c.gpu_vram, c.num_gpus),
     total_available_vram |-> TotalAvailable(c.gpu_vram, c.num_gpus)]

ft_with_totals(c, k) ==
    k @@ ft_totals(c, calculate_total_training_vram(
                          k.model_weights, k.activation_memory,
                          k.optimizer_states, k.kv_cache, k.adapter_overhead,
                          k.use_gradient_checkpointing))

\* the local variables of compute_finetuning_requirements after line 368,
\* for a known method and a non-zero step count
ft_locals(c) ==
    ft_with_totals(c,
        ft_components(c, FINETUNING_METHODS[c.finetuning_method],
            get_architecture_details(c.params_billions),
            ft_calculate_model_weights(c.params_billions,
                FINETUNING_METHODS[c.finetuning_method].model_weight_precision)))

\* mutation: the percentage taken over the 95% of the capacity
UsagePercentReserved(total_vram, gpu_vram, num_gpus) ==
    IF gpu_vram * num_gpus > 0
    THEN BRoundDiv(BMulSmall(total_vram.n, 20),
                   <<total_vram.d, gpu_vram, num_gpus, 19,
                     100000 \div GPU_UNIT>>)
    ELSE "inf"

\* round((total_vram / total_available_vram) * 100, 2) in hundredths of a
\* percent, or float("inf"); total_available_vram = gpu_vram * num_gpus is
\* gpu_vram * num_gpus * 10^9 / GPU_UNIT bytes, so the value in hundredths is
\* total_vram / (gpu_vram * num_gpus * 10^9 / (GPU_UNIT * 10^4))
UsagePercent(total_vram, gpu_vram, num_gpus) ==
    IF gpu_vram * num_gpus > 0
    THEN BRoundDiv(total_vram.n,
                   <<total_vram.d, gpu_vram, num_gpus, 100000 \div GPU_UNIT>>)
    ELSE "inf"

\* lines 371-389: the returned dictionary of the locals v
ft_result(c, v) ==
    [error                  |-> "none",
     will_it_fit            |-> v.will_fit,
     needed_vram            |-> Round2(v.total_vram),
     model_weights          |-> Round2(v.model_weights),
     activation_memory      |-> Round2(v.activation_memory),
     optimizer_states       |-> Round2(v.optimizer_states),
     kv_cache               |-> Round2(v.kv_cache),
     gradient_checkpointing |-> v.use_gradient_checkpointing,
     total_vram             |-> Round2(v.total_vram),
     vram_per_gpu           |-> Round2(v.vram_per_gpu),
     vram_usage_percent     |-> UsagePercent(v.total_vram, c.gpu_vram,
                                             c.num_gpus),
     effective_batch_size   |-> v.effective_batch_size,
     architecture           |-> [hidden_dim |-> v.hidden_dim,
                                 num_layers |-> v.num_layers]]

\* mutation: an unknown method estimated as full fine-tuning
compute_finetuning_requirements_defaulting(c) ==
    IF c.grad_accum_steps = 0
    THEN [error |-> "ZeroDivisionError"]
    ELSE ft_result(c, ft_locals([c EXCEPT !.finetuning_method =
                                    IF @ \in DOMAIN FINETUNING_METHODS
                                    THEN @ ELSE "full"]))

\* the returned dictionary, or the exception raised
compute_finetuning_requirements(c) ==
    IF c.finetuning_method \notin DOMAIN FINETUNING_METHODS
    THEN [error |-> "ValueError"]
    ELSE IF c.grad_accum_steps = 0
    THEN [error |-> "ZeroDivisionError"]
    ELSE ft_result(c, ft_locals(c))

-----------------------------------------------------------------------------
(* inference.py: component calculators and compute_vram_requirements       *)
(* (117-303).  An inference configuration is the record of the arguments.  *)

calculate_model_weights(num_params, precision) ==
    LET bytes_per_param == PRECISION_BYTES[precision]
    IN  QMul(Giga(QMul(QInt(num_params), 1, PARAMS_UNIT)),
             bytes_per_param[1], bytes_per_param[2])

\* mutation: the reasoning and the plain overhead factors exchanged
InferenceOverheadExchanged(is_reasoning) ==
    IF is_reasoning THEN <<23, 20>> ELSE <<5, 4>>

\* model_weights * 0.2
calculate_activation_memory(model_weights) == QMul(model_weights, 1, 5)

\* mutation: the concurrent requests share the cache instead of multiplying it
calculate_kv_cache_shared(hidden_dim, num_layers, batch_size, seq_length, precision, concurrent_requests) ==
    QMul(QMul(QMul(QMul(QMul(QInt(hidden_dim), 2, 1),
                        PRECISION_BYTES[precision][1],
                        PRECISION_BYTES[precision][2]),
                   num_layers, 1),
              seq_length, 1),
         batch_size, IF concurrent_requests > 0 THEN concurrent_requests ELSE 1)

\* batch_size * seq_length * kv_cache_per_token * concurrent_requests
calculate_kv_cache(hidden_dim, num_layers, batch_size, seq_length, precision, concurrent_requests) ==
    LET bytes_per_element  == PRECISION_BYTES[precision]
        kv_cache_per_token ==
            QMul(QMul(QMul(QInt(hidden_dim), 2, 1),
                      bytes_per_element[1], bytes_per_element[2]),
                 num_layers, 1)
    IN  QMul(QMul(QMul(kv_cache_per_token, seq_length, 1), batch_size, 1),
             concurrent_requests, 1)

\* 1.25 if is_reasoning else 1.15
InferenceOverhead(is_reasoning) == IF is_reasoning THEN <<5, 4>> ELSE <<23, 20>>

calculate_total_vram(model_weights, activation_memory, kv_cache, is_reasoning) ==
    QMul(QAdd(QAdd(model_weights, activation_memory), kv_cache),
         InferenceOverhead(is_reasoning)[1], InferenceOverhead(is_reasoning)[2])

\* the KV cache of the workload c
inf_kv_cache(c, arch) ==
    calculate_kv_cache(arch[1], arch[2], c.batch_size, c.seq_length,
                       c.precision, c.concurrent_requests)

\* lines 250-258: the components of the workload c, exact
inf_components(c, arch, model_weights) ==
    [hidden_dim        |-> arch[1],
     num_layers        |-> arch[2],
     model_weights     |-> model_weights,
     activation_memory |-> calculate_activation_memory(model_weights),
     kv_cache          |-> inf_kv_cache(c, arch)]

\* lines 260-283: the total of the components, its share and the verdict
inf_totals(c, total_vram) ==
    [total_vram           |-> total_vram,
     vram_per_gpu         |-> VramPerGpu(total_vram, c.num_gpus),
     will_fit             |-> will_model_fit(total_vram, c.gpu_vram, c.num_gpus),
     total_available_vram |-> TotalAvailable(c.gpu_vram, c.num_gpus)]

\* lines 271-275: the overhead factor, and the sum before the overhead
inf_base(c, k) ==
    [base_vram       |-> QAdd(QAdd(k.model_weights, k.activation_memory),
                              k.kv_cache),
     overhead_factor |-> InferenceOverhead(c.is_reasoning)]

inf_with_totals(c, k) ==
    k @@ inf_base(c, k) @@
    inf_totals(c, calculate_total_vram(k.model_weights, k.activation_memory,
                                       k.kv_cache, c.is_reasoning))

\* the local variables of compute_vram_requirements after line 283, for a
\* known precision
inf_locals(c) ==
    inf_with_totals(c,
        inf_components(c, get_architecture_details(c.params_billions),
                       calculate_model_weights(c.params_billions, c.precision)))

\* lines 285-303: the returned dictionary of the locals v
inf_result(c, v) ==
    [error              |-> "none",
     will_it_fit        |-> v.will_fit,
     needed_vram        |-> Round2(v.total_vram),
     total_kv_cache     |-> Round2(v.kv_cache),
     model_weights      |-> Round2(v.model_weights),
     activation_memory  |-> Round2(v.activation_memory),
     kv_cache           |-> Round2(v.kv_cache),
     base_vram          |-> Round2(v.base_vram),
     overhead_factor    |-> v.overhead_factor,
     total_vram         |-> Round2(v.total_vram),
     vram_per_gpu       |-> Round2(v.vram_per_gpu),
     vram_usage_percent |-> UsagePercent(v.total_vram, c.gpu_vram, c.num_gpus),
     architecture       |-> [hidden_dim |-> v.hidden_dim,
                             num_layers |-> v.num_layers]]

\* the returned dictionary, or the exception raised
compute_vram_requirements(c) ==
    IF c.precision \notin DOMAIN PRECISION_BYTES
    THEN [error |-> "KeyError"]
    ELSE inf_result(c, inf_locals(c))

-----------------------------------------------------------------------------
(* vram_calculator.py: the command-line estimate.  An optional argument is *)
(* <<>> (None) or <<value>>.                                               *)

MODALITY_OVERHEAD ==
    [Text |-> <<23, 20>>, Audio |-> <<13, 10>>, Video |-> <<7, 5>>,
     Reasoning |-> <<5, 4>>, Multimodal |-> <<3, 2>>]

ACTIVATION_FACTORS == [Inference |-> <<1, 5>>, Training |-> <<2, 1>>]

OPTIMIZER_MULTIPLIER == <<4, 1>>

cli_calculate_model_weights(num_params, precision) ==
    LET bytes_per_param == FT_PRECISION_BYTES[precision]
    IN  QMul(Giga(QMul(QInt(num_params), 1, PARAMS_UNIT)),
             bytes_per_param[1], bytes_per_param[2])

cli_calculate_activation_memory(model_weights, use_case) ==
    LET activation_factor == ACTIVATION_FACTORS[use_case]
    IN  QMul(model_weights, activation_factor[1], activation_factor[2])

cli_calculate_kv_cache(hidden_dim, num_layers, batch_size, seq_length, precision) ==
    LET bytes_per_element  == FT_PRECISION_BYTES[precision]
        kv_cache_per_token ==
            QMul(QMul(QMul(QInt(hidden_dim), 2, 1),
                      bytes_per_element[1], bytes_per_element[2]),
                 num_layers, 1)
    IN  QMul(QMul(kv_cache_per_token, seq_length, 1), batch_size, 1)

cli_calculate_optimizer_states(model_weights) ==
    QMul(model_weights, OPTIMIZER_MULTIPLIER[1], OPTIMIZER_MULTIPLIER[2])

cli_calculate_total_vram(model_weights, activation_memory, kv_cache, optimizer_states, modality) ==
    LET base_vram       == QAdd(QAdd(QAdd(model_weights, activation_memory),
                                     kv_cache), optimizer_states)
        overhead_factor == MODALITY_OVERHEAD[modality]
    IN  QMul(base_vram, overhead_factor[1], overhead_factor[2])

\* get_architecture_details(model_size) of vram_calculator.py, for a model
\* size of the table (argparse admits no other)
cli_get_architecture_details(model_size) == ArchDims(ArchEntry(model_size))

AbsDiff(v, w) == IF v >= w THEN v - w ELSE w - v

\* abs(float(x[:-1]) - num_params)
CliDistance(x, num_params) ==
    AbsDiff(ParseFloat(SubSeq(x, 1, Len(x) - 1)), num_params)

\* min(keys, key = ...): the first key of the least distance
RECURSIVE MinByDistance(_, _, _)
MinByDistance(keys, best, num_params) ==
    IF keys = <<>> THEN best
    ELSE MinByDistance(Tail(keys),
             IF CliDistance(Head(keys), num_params) < CliDistance(best, num_params)
             THEN Head(keys) ELSE best,
             num_params)

cli_closest_size(num_params) ==
    MinByDistance(Tail(ArchKeys), Head(ArchKeys), num_params)

\* main() 363-374: custom_params, or float(model_size[:-1])
cli_num_params(a) ==
    IF a.custom_params # <<>> THEN a.custom_params[1]
    ELSE ParseFloat(SubSeq(a.model_size, 1, Len(a.model_size) - 1))

\* main() 366-388: the overrides, or the details of the nearest size of the
\* table (custom parameters) or of the model size
cli_arch(a, num_params) ==
    IF a.hidden_dim # <<>> /\ a.num_layers # <<>>
    THEN <<a.hidden_dim[1], a.num_layers[1]>>
    ELSE IF a.custom_params # <<>>
    THEN cli_get_architecture_details(cli_closest_size(num_params))
    ELSE cli_get_architecture_details(a.model_size)

\* main() 390-399: the components
cli_components(a, num_params, arch, model_weights) ==
    [error             |-> "none",
     num_params        |-> num_params,
     hidden_dim        |-> arch[1],
     num_layers        |-> arch[2],
     precision         |-> a.precision,
     batch_size        |-> a.batch_size,
     seq_length        |-> a.seq_length,
     use_case          |-> a.use_case,
     modality          |-> a.modality,
     model_weights     |-> model_weights,
     activation_memory |-> cli_calculate_activation_memory(model_weights,
                                                           a.use_case),
     kv_cache          |-> cli_calculate_kv_cache(arch[1], arch[2], a.batch_size,
                                                  a.seq_length, a.precision),
     optimizer_states  |-> IF a.use_case = "Training"
                           THEN cli_calculate_optimizer_states(model_weights)
                           ELSE QInt(0)]

\* main() 401-405: the sum, the overhead factor of the modality, the total
cli_totals(a, base_vram) ==
    [base_vram       |-> base_vram,
     overhead_factor |-> MODALITY_OVERHEAD[a.modality],
     total_vram      |-> QMul(base_vram, MODALITY_OVERHEAD[a.modality][1],
                              MODALITY_OVERHEAD[a.modality][2])]

cli_with_totals(a, k) ==
    k @@ cli_totals(a, QAdd(QAdd(QAdd(k.model_weights, k.activation_memory),
                                 k.kv_cache), k.optimizer_states))

cli_estimate(a, num_params) ==
    cli_with_totals(a,
        cli_components(a, num_params, cli_arch(a, num_params),
                       cli_calculate_model_weights(num_params, a.precision)))

\* main(), the branch of the command-line arguments (363-424)
cli_main(a) == cli_estimate(a, cli_num_params(a))

-----------------------------------------------------------------------------
(* The suggestion searches.  A trial is a candidate configuration with the *)
(* result of the estimate re-run on it; a loop with a break stops at the   *)
(* first trial that fits.                                                  *)

\* the candidates, each with the result of compute_finetuning_requirements
ft_evaluate(candidates) ==
    [i \in DOMAIN candidates |->
        [config |-> candidates[i],
         result |-> compute_finetuning_requirements(candidates[i])]]

\* the candidates, each with the result of compute_vram_requirements
inf_evaluate(candidates) ==
    [i \in DOMAIN candidates |->
        [config |-> candidates[i],
         result |-> compute_vram_requirements(candidates[i])]]

\* the trials a loop makes: all of them, or with a break those up to the
\* first that fits
RECURSIVE UpToBreak(_, _)
UpToBreak(trials, break_at_fit) ==
    IF trials = <<>> THEN <<>>
    ELSE <<Head(trials)>> \o
         (IF break_at_fit /\ Head(trials).result.will_it_fit THEN <<>>
          ELSE UpToBreak(Tail(trials), break_at_fit))

ft_trials(candidates, break_at_fit) ==
    UpToBreak(ft_evaluate(candidates), break_at_fit)

inf_trials(candidates, break_at_fit) ==
    UpToBreak(inf_evaluate(candidates), break_at_fit)

\* mutation: every trial appended, fitting or not
AppendedAll(trials, type, key, field) ==
    [i \in DOMAIN trials |->
        ("type" :> type) @@ (key :> trials[i].config[field]) @@
        ("needed_vram" :> trials[i].result.needed_vram)]

\* mutation: the new value left out of the dictionary
AppendedWithoutValue(trials, type, key, field) ==
    SelectSeq([i \in DOMAIN trials |->
                  [type |-> type, needed_vram |-> trials[i].result.needed_vram,
                   fits |-> trials[i].result.will_it_fit]],
              LAMBDA t : t.fits)

\* the dictionaries appended for the trials that fit: the type, the new
\* value of the changed argument under its key, and the needed VRAM
RECURSIVE Appended(_, _, _, _)
Appended(trials, type, key, field) ==
    IF trials = <<>> THEN <<>>
    ELSE (IF Head(trials).result.will_it_fit
          THEN <<("type" :> type) @@ (key :> Head(trials).config[field]) @@
                 ("needed_vram" :> Head(trials).result.needed_vram)>>
          ELSE <<>>) \o Appended(Tail(trials), type, key, field)

Configs(trials) == [i \in DOMAIN trials |-> trials[i].config]

\* the configurations c with field set to each of the values
Candidates(c, field, values) ==
    [i \in DOMAIN values |-> [c EXCEPT ![field] = values[i]]]

\* mutation: the method loop stopped at the first method that fits
ft_method_trials_first(c) ==
    ft_trials(Candidates(c, "finetuning_method",
                         SelectSeq(<<"lora", "qlora">>,
                                   LAMBDA m : m # c.finetuning_method)),
              TRUE)

\* fine-tune.py 433-453: for method in ["lora", "qlora"], no break
ft_method_trials(c) ==
    ft_trials(Candidates(c, "finetuning_method",
                         SelectSeq(<<"lora", "qlora">>,
                                   LAMBDA m : m # c.finetuning_method)),
              FALSE)

\* mutation: the current step count tried again (>= for >)
ft_grad_accum_trials_inclusive(c) ==
    ft_trials(Candidates(c, "grad_accum_steps",
                         SelectSeq(<<2, 4, 8>>,
                                   LAMBDA g : g >= c.grad_accum_steps)),
              TRUE)

\* fine-tune.py 455-476: for new_grad_accum in [2, 4, 8], break at the first fit
ft_grad_accum_trials(c) ==
    ft_trials(Candidates(c, "grad_accum_steps",
                         SelectSeq(<<2, 4, 8>>,
                                   LAMBDA g : g > c.grad_accum_steps)),
              TRUE)

\* mutation: the last candidate an empty batch (0 for 1)
ft_batch_size_trials_empty(c) ==
    IF c.batch_size > 1
    THEN ft_trials(<<[c EXCEPT !.batch_size = c.batch_size \div 2],
                     [c EXCEPT !.batch_size = 0]>>, TRUE)
    ELSE <<>>

\* mutation: the batch halved again and again down to 1
ft_batch_size_trials_halving(c) ==
    IF c.batch_size > 1
    THEN ft_trials(Candidates(c, "batch_size",
                              SelectSeq(<<c.batch_size \div 2, c.batch_size \div 4,
                                          c.batch_size \div 8, c.batch_size \div 16,
                                          1>>,
                                        LAMBDA b : b >= 1)),
                   TRUE)
    ELSE <<>>

\* fine-tune.py 478-499: if batch_size > 1, for [batch_size // 2, 1]
ft_batch_size_trials(c) ==
    IF c.batch_size > 1
    THEN ft_trials(<<[c EXCEPT !.batch_size = c.batch_size \div 2],
                     [c EXCEPT !.batch_size = 1]>>, TRUE)
    ELSE <<>>

\* mutation: the sequence lengths tried at batch size 1, the last candidate
\* of the batch-size loop
ft_seq_length_trials_carried(c) ==
    IF c.seq_length > 512
    THEN ft_trials(<<[c EXCEPT !.seq_length = c.seq_length \div 2,
                               !.batch_size = 1],
                     [c EXCEPT !.seq_length = 1024, !.batch_size = 1],
                     [c EXCEPT !.seq_length = 512, !.batch_size = 1]>>, TRUE)
    ELSE <<>>

\* mutation: the sequence-length loop without its break
ft_seq_length_trials_unbroken(c) ==
    IF c.seq_length > 512
    THEN ft_trials(<<[c EXCEPT !.seq_length = c.seq_length \div 2],
                     [c EXCEPT !.seq_length = 1024],
                     [c EXCEPT !.seq_length = 512]>>, FALSE)
    ELSE <<>>

\* fine-tune.py 501-522: if seq_length > 512, for [seq_length // 2, 1024, 512]
ft_seq_length_trials(c) ==
    IF c.seq_length > 512
    THEN ft_trials(<<[c EXCEPT !.seq_length = c.seq_length \div 2],
                     [c EXCEPT !.seq_length = 1024],
                     [c EXCEPT !.seq_length = 512]>>, TRUE)
    ELSE <<>>

\* mutation: more devices tried whatever the current count
ft_num_gpus_trials_unlimited(c) ==
    ft_trials(<<[c EXCEPT !.num_gpus = c.num_gpus + 1],
                [c EXCEPT !.num_gpus = c.num_gpus * 2]>>, TRUE)

\* fine-tune.py 524-545: if num_gpus < 8, for [num_gpus + 1, num_gpus * 2]
ft_num_gpus_trials(c) ==
    IF c.num_gpus < 8
    THEN ft_trials(<<[c EXCEPT !.num_gpus = c.num_gpus + 1],
                     [c EXCEPT !.num_gpus = c.num_gpus * 2]>>, TRUE)
    ELSE <<>>

\* inference.py 350-372
inf_batch_size_trials(c) ==
    IF c.batch_size > 1
    THEN inf_trials(<<[c EXCEPT !.batch_size = c.batch_size \div 2],
                      [c EXCEPT !.batch_size = 1]>>, TRUE)
    ELSE <<>>

\* inference.py 374-396
inf_seq_length_trials(c) ==
    IF c.seq_length > 512
    THEN inf_trials(<<[c EXCEPT !.seq_length = c.seq_length \div 2],
                      [c EXCEPT !.seq_length = 1024],
                      [c EXCEPT !.seq_length = 512]>>, TRUE)
    ELSE <<>>

\* PRECISION_BYTES[a] < PRECISION_BYTES[b]
LessBytes(a, b) ==
    PRECISION_BYTES[a][1] * PRECISION_BYTES[b][2]
        < PRECISION_BYTES[b][1] * PRECISION_BYTES[a][2]

\* inference.py 398-421: for new_precision in ["Q4", "Q2"] of fewer bytes
inf_precision_trials(c) ==
    inf_trials(Candidates(c, "precision",
                          SelectSeq(<<"Q4", "Q2">>,
                                    LAMBDA q : LessBytes(q, c.precision))),
               TRUE)

\* inference.py 423-445
inf_num_gpus_trials(c) ==
    IF c.num_gpus < 8
    THEN inf_trials(<<[c EXCEPT !.num_gpus = c.num_gpus + 1],
                      [c EXCEPT !.num_gpus = c.num_gpus * 2]>>, TRUE)
    ELSE <<>>

-----------------------------------------------------------------------------
(* The inputs the model draws from.                                        *)

MaxGpus == 8
MaxBatch == 32
MaxSeq == 4096
MaxGradAccum == 8
MaxConcurrent == 2

GpuCounts == {0, 1, 3, MaxGpus}
BatchSizes == {1, 8, MaxBatch}
SeqLengths == {600, 2048, MaxSeq}
GradAccums == {1, 3, MaxGradAccum}

\* valid training workloads: 3B and 7B models on 24 GB devices
FtValid ==
    [params_billions : {300, 700}, finetuning_method : {"full", "lora", "qlora"},
     gpu_vram : {24000}, num_gpus : GpuCounts, batch_size : BatchSizes,
     seq_length : SeqLengths, grad_accum_steps : GradAccums]

FtBase ==
    {c \in FtValid : /\ c.num_gpus = 1 /\ c.batch_size = 8
                     /\ c.seq_length = 2048 /\ c.grad_accum_steps = 1}

\* one argument of a base workload made non-positive, or the method unknown
FtInvalid ==
    UNION {{[c EXCEPT !.params_billions = 0], [c EXCEPT !.batch_size = 0],
            [c EXCEPT !.seq_length = 0], [c EXCEPT !.grad_accum_steps = 0],
            [c EXCEPT !.finetuning_method = "dora"]} : c \in FtBase}

\* a workload whose total is exactly 95% of the capacity: 3B, full, batch 25,
\* 1250 tokens on one 65.664 GB device (total 62.3808 GB)
FtBoundary ==
    {[params_billions |-> 300, finetuning_method |-> "full", gpu_vram |-> 65664,
      num_gpus |-> 1, batch_size |-> 25, seq_length |-> 1250,
      grad_accum_steps |-> 1]}

\* the workload of fine-tune.py's main(): 7B, full fine-tuning, one 24 GB
\* device, batch 8, 2048 tokens, no gradient accumulation
ScenarioA ==
    [params_billions |-> 700, finetuning_method |-> "full", gpu_vram |-> 24000,
     num_gpus |-> 1, batch_size |-> 8, seq_length |-> 2048,
     grad_accum_steps |-> 1]

\* a workload of 1024 tokens, the length that is also a candidate of the
\* sequence-length loop
FtRepeated == {[ScenarioA EXCEPT !.seq_length = 1024]}

FtConfigs ==
    FtValid \cup FtInvalid \cup FtBoundary \cup {ScenarioA} \cup FtRepeated

\* valid inference workloads: 6.85B and 13B models on 24 GB devices
InfValid ==
    [params_billions : {685, 1300}, precision : {"FP16", "Q8", "Q4"},
     gpu_vram : {24000}, num_gpus : GpuCounts, batch_size : BatchSizes,
     seq_length : SeqLengths, concurrent_requests : {1, MaxConcurrent},
     is_reasoning : BOOLEAN]

InfBase ==
    {c \in InfValid : /\ c.num_gpus = 1 /\ c.batch_size = 8
                      /\ c.seq_length = 2048 /\ c.concurrent_requests = 1}

InfInvalid ==
    UNION {{[c EXCEPT !.params_billions = 0], [c EXCEPT !.batch_size = 0],
            [c EXCEPT !.seq_length = 0], [c EXCEPT !.concurrent_requests = 0],
            [c EXCEPT !.precision = "FP8"]} : c \in InfBase}

\* the workload of inference.py's main(): 6.85B at 8 bits, one 24 GB device,
\* batch 32, 2048 tokens, one request at a time, a reasoning model
ScenarioB ==
    [params_billions |-> 685, precision |-> "Q8", gpu_vram |-> 24000,
     num_gpus |-> 1, batch_size |-> 32, seq_length |-> 2048,
     concurrent_requests |-> 1, is_reasoning |-> TRUE]

InfConfigs == InfValid \cup InfInvalid \cup {ScenarioB}

\* command lines: argparse admits only the table's sizes, precisions, use
\* cases and modalities
CliArgs ==
    [model_size : {<<"7", "B">>, <<"1", "3", "B">>},
     custom_params : {<<>>, <<200>>, <<685>>, <<1000>>, <<50000>>},
     hidden_dim : {<<>>, <<4096>>}, num_layers : {<<>>, <<32>>},
     precision : {"FP16", "INT4"}, batch_size : {1}, seq_length : {2048},
     use_case : DOMAIN ACTIVATION_FACTORS, modality : DOMAIN MODALITY_OVERHEAD]

MaxArchParams == 150

\* requested parameter counts: every count up to 1.5B, the counts next to
\* each size of the table, and counts beyond the largest
ArchParams ==
    (0..MaxArchParams)
    \cup UNION {{ArchSortKey(ArchKeys[i]) - 1, ArchSortKey(ArchKeys[i]),
                 ArchSortKey(ArchKeys[i]) + 1} : i \in DOMAIN ArchKeys}
    \cup {685, 20000, 100000}

-----------------------------------------------------------------------------
(* The state: one call of one of the engine's functions and the position   *)
(* of the search in it.                                                    *)

VARIABLES
    op,           \* the function called, "none" before the call
    args,         \* its arguments
    pc,           \* "idle", the axis the search is about to run, "returned"
                  \* or "raised"
    result,       \* the result of the estimate of args (or the exception)
    suggestions,  \* the list the search has built so far
    evaluated,    \* the candidate configurations re-evaluated so far
    globals       \* the module-level tables, which outlive the calls

vars == <<op, args, pc, result, suggestions, evaluated, globals>>

NoResult == [error |-> "unset"]

Init ==
    /\ op = "none"
    /\ args = [none |-> TRUE]
    /\ pc = "idle"
    /\ result = NoResult
    /\ suggestions = <<>>
    /\ evaluated = <<>>
    /\ globals = ModuleGlobals

Outcome(r) == IF r.error = "none" THEN "returned" ELSE "raised"

\* mutation: the method profile completed in place with the default adapter
\* overhead (dict.setdefault instead of dict.get)
EstimateTrainingSetDefault ==
    /\ pc = "idle"
    /\ \E c \in FtConfigs :
        /\ op' = "compute_finetuning_requirements"
        /\ args' = c
        /\ result' = compute_finetuning_requirements(c)
        /\ pc' = Outcome(result')
        /\ globals' =
              IF c.finetuning_method \in DOMAIN FINETUNING_METHODS
              THEN [globals EXCEPT !.FINETUNING_METHODS[c.finetuning_method] =
                       @ @@ [adapter_overhead |-> <<0, 1>>]]
              ELSE globals
    /\ UNCHANGED <<suggestions, evaluated>>

\* compute_finetuning_requirements(**c)
EstimateTraining ==
    /\ pc = "idle"
    /\ \E c \in FtConfigs :
        /\ op' = "compute_finetuning_requirements"
        /\ args' = c
        /\ result' = compute_finetuning_requirements(c)
        /\ pc' = Outcome(result')
    /\ UNCHANGED <<suggestions, evaluated, globals>>

\* mutation: the search run whatever the initial estimate says
SuggestTrainingUnchecked ==
    /\ pc = "idle"
    /\ \E c \in FtConfigs :
        /\ op' = "suggest_finetuning_configurations"
        /\ args' = c
        /\ result' = compute_finetuning_requirements(c)
        /\ pc' = IF result'.error # "none" THEN "raised" ELSE "method"
    /\ UNCHANGED <<suggestions, evaluated, globals>>

\* suggest_finetuning_configurations(**c) up to line 431
SuggestTraining ==
    /\ pc = "idle"
    /\ \E c \in FtConfigs :
        /\ op' = "suggest_finetuning_configurations"
        /\ args' = c
        /\ result' = compute_finetuning_requirements(c)
        /\ pc' = IF result'.error # "none" THEN "raised"
                 ELSE IF result'.will_it_fit THEN "returned"
                 ELSE "method"
    /\ UNCHANGED <<suggestions, evaluated, globals>>

\* one axis of a search: its trials are made, the fitting ones appended
Axis(search, here, trials, type, key, field, next) ==
    /\ op = search
    /\ pc = here
    /\ suggestions' = suggestions \o Appended(trials, type, key, field)
    /\ evaluated' = evaluated \o Configs(trials)
    /\ pc' = next
    /\ UNCHANGED <<op, args, result, globals>>

FtMethodAxis ==
    Axis("suggest_finetuning_configurations", "method", ft_method_trials(args),
         "change_method", "method", "finetuning_method", "grad_accum")

FtGradAccumAxis ==
    Axis("suggest_finetuning_configurations", "grad_accum",
         ft_grad_accum_trials(args),
         "increase_grad_accum", "grad_accum_steps", "grad_accum_steps",
         "batch_size")

FtBatchSizeAxis ==
    Axis("suggest_finetuning_configurations", "batch_size",
         ft_batch_size_trials(args),
         "reduce_batch_size", "batch_size", "batch_size", "seq_length")

FtSeqLengthAxis ==
    Axis("suggest_finetuning_configurations", "seq_length",
         ft_seq_length_trials(args),
         "reduce_sequence_length", "sequence_length", "seq_length", "num_gpus")

FtNumGpusAxis ==
    Axis("suggest_finetuning_configurations", "num_gpus",
         ft_num_gpus_trials(args),
         "increase_gpus", "num_gpus", "num_gpus", "returned")

\* compute_vram_requirements(**c)
EstimateInference ==
    /\ pc = "idle"
    /\ \E c \in InfConfigs :
        /\ op' = "compute_vram_requirements"
        /\ args' = c
        /\ result' = compute_vram_requirements(c)
        /\ pc' = Outcome(result')
    /\ UNCHANGED <<suggestions, evaluated, globals>>

\* suggest_configurations(**c) up to line 348
SuggestInference ==
    /\ pc = "idle"
    /\ \E c \in InfConfigs :
        /\ op' = "suggest_configurations"
        /\ args' = c
        /\ result' = compute_vram_requirements(c)
        /\ pc' = IF result'.error # "none" THEN "raised"
                 ELSE IF result'.will_it_fit THEN "returned"
                 ELSE "batch_size"
    /\ UNCHANGED <<suggestions, evaluated, globals>>

InfBatchSizeAxis ==
    Axis("suggest_configurations", "batch_size", inf_batch_size_trials(args),
         "reduce_batch_size", "batch_size", "batch_size", "seq_length")

InfSeqLengthAxis ==
    Axis("suggest_configurations", "seq_length", inf_seq_length_trials(args),
         "reduce_sequence_length", "sequence_length", "seq_length", "precision")

InfPrecisionAxis ==
    Axis("suggest_configurations", "precision", inf_precision_trials(args),
         "more_quantization", "precision", "precision", "num_gpus")

InfNumGpusAxis ==
    Axis("suggest_configurations", "num_gpus", inf_num_gpus_trials(args),
         "increase_gpus", "num_gpus", "num_gpus", "returned")

\* vram_calculator.py main() on a command line
CliMain ==
    /\ pc = "idle"
    /\ \E a \in CliArgs :
        /\ op' = "main"
        /\ args' = a
        /\ result' = cli_main(a)
        /\ pc' = "returned"
    /\ UNCHANGED <<suggestions, evaluated, globals>>

\* get_architecture_details(params_billions), the state set up by InitArch
ResolveArchitecture ==
    /\ pc = "idle"
    /\ op = "get_architecture_details"
    /\ result' = [error     |-> "none",
                  closest   |-> get_closest_architecture(args.params_billions),
                  dimensions |-> get_architecture_details(args.params_billions)]
    /\ pc' = "returned"
    /\ UNCHANGED <<op, args, suggestions, evaluated, globals>>

\* the call is over, its result and its list with the caller, who may call
\* again: nothing of the call is kept but the module-level names
Return ==
    /\ pc \in {"returned", "raised"}
    /\ op' = "none"
    /\ args' = [none |-> TRUE]
    /\ pc' = "idle"
    /\ result' = NoResult
    /\ suggestions' = <<>>
    /\ evaluated' = <<>>
    /\ UNCHANGED globals

Next ==
    \/ EstimateTraining
    \/ SuggestTraining
    \/ FtMethodAxis
    \/ FtGradAccumAxis
    \/ FtBatchSizeAxis
    \/ FtSeqLengthAxis
    \/ FtNumGpusAxis
    \/ EstimateInference
    \/ SuggestInference
    \/ InfBatchSizeAxis
    \/ InfSeqLengthAxis
    \/ InfPrecisionAxis
    \/ InfNumGpusAxis
    \/ CliMain
    \/ Return

Spec == Init /\ [][Next]_vars

\* architecture resolution alone, on every requested count of ArchParams
InitArch ==
    /\ op = "get_architecture_details"
    /\ args \in [params_billions : ArchParams]
    /\ pc = "idle"
    /\ result = NoResult
    /\ suggestions = <<>>
    /\ evaluated = <<>>
    /\ globals = ModuleGlobals

NextArch == ResolveArchitecture

SpecArch == InitArch /\ [][NextArch]_vars

-----------------------------------------------------------------------------
(* Properties.                                                             *)

TrainingSearch == op = "suggest_finetuning_configurations"
InferenceSearch == op = "suggest_configurations"
TrainingEstimate == op = "compute_finetuning_requirements"
InferenceEstimate == op = "compute_vram_requirements"

\* the estimate of configuration c by the engine that op belongs to
EstimateOf(c) ==
    IF TrainingSearch \/ TrainingEstimate
    THEN compute_finetuning_requirements(c)
    ELSE compute_vram_requirements(c)

\* the argument a suggestion of the given type changes, and the key under
\* which the suggestion carries the new value
ChangedArgument ==
    [change_method          |-> "finetuning_method",
     increase_grad_accum    |-> "grad_accum_steps",
     reduce_batch_size      |-> "batch_size",
     reduce_sequence_length |-> "seq_length",
     more_quantization      |-> "precision",
     increase_gpus          |-> "num_gpus"]

ValueKey ==
    [change_method          |-> "method",
     increase_grad_accum    |-> "grad_accum_steps",
     reduce_batch_size      |-> "batch_size",
     reduce_sequence_length |-> "sequence_length",
     more_quantization      |-> "precision",
     increase_gpus          |-> "num_gpus"]

\* the original configuration c with the one change of suggestion s applied
ApplySuggestion(c, s) ==
    [c EXCEPT ![ChangedArgument[s.type]] = s[ValueKey[s.type]]]

SoundSuggestion(c, s, r) ==
    /\ r.error = "none"
    /\ r.will_it_fit
    /\ r.needed_vram = s.needed_vram

\* C1: every suggestion a search has appended, applied to the original
\* configuration and re-estimated, fits, and its needed_vram is the needed
\* VRAM of that re-estimate.
C1_SuggestionSoundness ==
    (TrainingSearch \/ InferenceSearch) =>
        \A i \in DOMAIN suggestions :
            SoundSuggestion(args, suggestions[i],
                            EstimateOf(ApplySuggestion(args, suggestions[i])))

\* a training search that returned suggestions of two kinds
C1_Witness ==
    /\ TrainingSearch
    /\ pc = "returned"
    /\ \E i, j \in DOMAIN suggestions :
          suggestions[i].type # suggestions[j].type

\* C2: when the estimate of the original configuration fits, the search has
\* returned with an empty list and has evaluated no candidate.
C2_SearchOnlyWhenNoFit ==
    ((TrainingSearch \/ InferenceSearch) /\ result.error = "none"
        /\ result.will_it_fit)
    => (pc = "returned" /\ suggestions = <<>> /\ evaluated = <<>>)

\* a search called on a configuration that fits
C2_Witness ==
    /\ InferenceSearch
    /\ result.error = "none"
    /\ result.will_it_fit
    /\ pc = "returned"
    /\ suggestions = <<>>

\* 20 * total <= 19 * gpu_vram * num_gpus in bytes, total = t.n / t.d and
\* gpu_vram in GPU_UNITs of 10^6 bytes
WithinNinetyFivePercent(t, gpu_vram, num_gpus) ==
    BLeq(BMulSmall(t.n, 20),
         BMulSmall(BMulSmall(BMulSmall(<<0, 0, 1>>, gpu_vram), num_gpus),
                   19 * t.d))

ExactlyNinetyFivePercent(t, gpu_vram, num_gpus) ==
    BMulSmall(t.n, 20) =
        BMulSmall(BMulSmall(BMulSmall(<<0, 0, 1>>, gpu_vram), num_gpus), 19 * t.d)

\* the exact final total of the configuration c
TotalOf(c) ==
    IF TrainingSearch \/ TrainingEstimate
    THEN ft_locals(c).total_vram
    ELSE inf_locals(c).total_vram

Estimated ==
    /\ op \in {"compute_finetuning_requirements", "compute_vram_requirements",
               "suggest_finetuning_configurations", "suggest_configurations"}
    /\ result.error = "none"

\* C3: the estimate reports a fit exactly when the final total is at most
\* gpu_vram * num_gpus * 0.95; a total equal to the 95% fits, a larger one
\* does not.
C3_FitRule ==
    Estimated =>
        (result.will_it_fit <=>
            WithinNinetyFivePercent(TotalOf(args), args.gpu_vram, args.num_gpus))

\* an estimate whose total is exactly 95% of the capacity, reported to fit
C3_Witness ==
    /\ TrainingEstimate
    /\ result.error = "none"
    /\ result.will_it_fit
    /\ ExactlyNinetyFivePercent(TotalOf(args), args.gpu_vram, args.num_gpus)

\* the table of the claim: nominal sizes in units of 1/100 billion
NominalSizes == {100, 300, 700, 1300, 3000, 6500, 12000, 40500, 67100}

\* the size a resolved key names
NominalOf(key) == ArchSortKey(key)

Resolved == op = "get_architecture_details" /\ pc = "returned"

\* C4: the resolved bucket is the smallest one of the table whose nominal
\* size is at least the requested count (a request equal to a nominal size
\* resolves to that bucket), and the largest bucket when the request exceeds
\* all; the dimensions returned are that bucket's.
C4_CeilingMatch ==
    Resolved =>
        /\ NominalOf(result.closest) \in NominalSizes
        /\ IF \E b \in NominalSizes : b >= args.params_billions
           THEN /\ NominalOf(result.closest) >= args.params_billions
                /\ \A b \in NominalSizes :
                      b >= args.params_billions => NominalOf(result.closest) <= b
           ELSE \A b \in NominalSizes : b <= NominalOf(result.closest)
        /\ result.dimensions = ArchDims(ArchEntry(result.closest))

\* a request equal to the nominal size of the 7B bucket resolved to it
C4_Witness ==
    /\ Resolved
    /\ args.params_billions = 700
    /\ result.closest = <<"7", "B">>
    /\ result.dimensions = <<4096, 32>>

Called == pc # "idle"

\* the workload arguments of the call that are not positive
NonPositiveWorkload ==
    \/ args.params_billions <= 0
    \/ args.batch_size <= 0
    \/ args.seq_length <= 0
    \/ ((TrainingEstimate \/ TrainingSearch) /\ args.grad_accum_steps <= 0)

\* C5, as claimed: an estimate called with a non-positive parameter count,
\* batch size, sequence length or accumulation step count raises an error
\* and returns no result.
C5_InvalidWorkloadFails ==
    ((TrainingEstimate \/ InferenceEstimate) /\ Called /\ NonPositiveWorkload)
    => (pc = "raised" /\ result.error # "none")

\* C6: with a method name outside the table, the training estimate and the
\* training search raise ValueError: no result, no suggestions, no candidate
\* evaluated.
C6_UnknownMethodFails ==
    ((TrainingEstimate \/ TrainingSearch) /\ Called
        /\ args.finetuning_method \notin {"full", "lora", "qlora"})
    => /\ pc = "raised"
       /\ result = [error |-> "ValueError"]
       /\ suggestions = <<>>
       /\ evaluated = <<>>

\* a training search called with the unknown method "dora"
C6_Witness ==
    /\ TrainingSearch
    /\ args.finetuning_method = "dora"
    /\ pc = "raised"
    /\ result.error = "ValueError"

FiveVariants ==
    {"change_method", "increase_grad_accum", "reduce_batch_size",
     "reduce_sequence_length", "increase_gpus"}

\* the suggestion s carries its type, the new value of the argument it
\* changes (a value other than the original one, of a candidate the search
\* evaluated) and the needed VRAM of that candidate
CarriesValueAndVram(s) ==
    /\ DOMAIN s = {"type", ValueKey[s.type], "needed_vram"}
    /\ s[ValueKey[s.type]] # args[ChangedArgument[s.type]]
    /\ \E i \in DOMAIN evaluated :
          /\ evaluated[i] = ApplySuggestion(args, s)
          /\ EstimateOf(evaluated[i]).needed_vram = s.needed_vram

\* C7, as claimed: every suggestion of a search is of one of the five
\* variants, and carries the new value and the needed VRAM.
C7_FiveVariants ==
    (TrainingSearch \/ InferenceSearch) =>
        \A i \in DOMAIN suggestions :
            /\ suggestions[i].type \in FiveVariants
            /\ CarriesValueAndVram(suggestions[i])

\* C7, amended: a suggestion of the training search is of one of the five
\* variants; a suggestion of the inference search is a batch-size reduction,
\* a sequence-length reduction, a GPU-count increase or a more-quantization
\* (a sixth variant); each carries the new value and the needed VRAM.
C7_SixVariants ==
    /\ TrainingSearch =>
          \A i \in DOMAIN suggestions :
              /\ suggestions[i].type \in FiveVariants
              /\ CarriesValueAndVram(suggestions[i])
    /\ InferenceSearch =>
          \A i \in DOMAIN suggestions :
              /\ suggestions[i].type \in
                    {"reduce_batch_size", "reduce_sequence_length",
                     "more_quantization", "increase_gpus"}
              /\ CarriesValueAndVram(suggestions[i])

\* an inference search that returned a more-quantization suggestion
C7_Witness ==
    /\ InferenceSearch
    /\ pc = "returned"
    /\ \E i \in DOMAIN suggestions :
          /\ suggestions[i].type = "more_quantization"
          /\ suggestions[i].precision = "Q4"

CliCall == op = "main" /\ pc = "returned"

TrainingCall == (TrainingEstimate \/ TrainingSearch) /\ result.error = "none"

InferenceCall == (InferenceEstimate \/ InferenceSearch) /\ result.error = "none"

\* the sum of the additive components of a training estimate with the locals
\* k: weights, activations (a quarter of them under gradient checkpointing),
\* optimizer states, KV cache and the adapter's share of the weights
TrainingSum(k) ==
    QAdd(QAdd(QAdd(QAdd(k.model_weights,
                        IF k.use_gradient_checkpointing
                        THEN QMul(k.activation_memory, 1, 4)
                        ELSE k.activation_memory),
                   k.optimizer_states),
              k.kv_cache),
         QMul(k.model_weights, k.adapter_overhead[1], k.adapter_overhead[2]))

InferenceSum(k) == QAdd(QAdd(k.model_weights, k.activation_memory), k.kv_cache)

CliSum(k) ==
    QAdd(QAdd(QAdd(k.model_weights, k.activation_memory), k.kv_cache),
         k.optimizer_states)

\* total = sum * num / den
IsSumTimes(total, sum, num, den) == QEq(total, QMul(sum, num, den))

TrainingOverheadOnce(k) == IsSumTimes(k.total_vram, TrainingSum(k), 6, 5)

InferenceOverheadOnce(k) ==
    IsSumTimes(k.total_vram, InferenceSum(k), k.overhead_factor[1],
               k.overhead_factor[2])

CliOverheadOnce(k) ==
    IsSumTimes(k.total_vram, CliSum(k), k.overhead_factor[1],
               k.overhead_factor[2])

\* C8: in every estimate the final total is the sum of the additive
\* components times the overhead factor, once; the factor of an inference
\* estimate is 1.25 for a reasoning model and 1.15 otherwise.
C8_OverheadOnce ==
    /\ TrainingCall => TrainingOverheadOnce(ft_locals(args))
    /\ InferenceCall =>
          /\ InferenceOverheadOnce(inf_locals(args))
          /\ result.overhead_factor =
                IF args.is_reasoning THEN <<5, 4>> ELSE <<23, 20>>
    /\ CliCall => CliOverheadOnce(result)

\* a LoRA estimate (checkpointing and adapter in the sum) that returned
C8_Witness ==
    /\ TrainingEstimate
    /\ pc = "returned"
    /\ args.finetuning_method = "lora"
    /\ ~QZero(ft_locals(args).kv_cache)

CliTrainingOverhead(k) == IsSumTimes(k.total_vram, CliSum(k), 6, 5)

\* C9, as claimed: every variant that computes a training total multiplies
\* the base total by 1.2, whatever the method and the modality.
C9_TrainingOverhead ==
    /\ TrainingCall => TrainingOverheadOnce(ft_locals(args))
    /\ (CliCall /\ args.use_case = "Training") => CliTrainingOverhead(result)

\* hidden_dim * 2 * bytes_per_element * num_layers * seq_length * num / den,
\* in bytes
KvFormula(hidden_dim, num_layers, bytes, seq_length, num, den) ==
    QMul(QMul(QMul(QMul(QInt(2 * hidden_dim), num_layers, 1),
                   bytes[1], bytes[2]),
              seq_length, 1),
         num, den)

TrainingKv(c) ==
    ft_kv_cache(c, FINETUNING_METHODS[c.finetuning_method],
                get_architecture_details(c.params_billions))

InferenceKv(c) == inf_kv_cache(c, get_architecture_details(c.params_billions))

TrainingKvFormula(c, arch) ==
    KvFormula(arch[1], arch[2],
              FT_PRECISION_BYTES[FINETUNING_METHODS[
                  c.finetuning_method].model_weight_precision],
              c.seq_length, c.batch_size, c.grad_accum_steps)

InferenceKvFormula(c, arch) ==
    KvFormula(arch[1], arch[2], PRECISION_BYTES[c.precision], c.seq_length,
              c.batch_size * c.concurrent_requests, 1)

\* C10: the KV cache is effective batch * sequence length * hidden_dim * 2 *
\* bytes per element * layers, the effective batch being batch / steps in
\* training and batch * concurrent requests in inference; more accumulation
\* steps never give a larger training KV cache, more concurrent requests
\* never a smaller inference KV cache.
C10_KvCache ==
    /\ TrainingCall =>
          /\ QEq(ft_locals(args).kv_cache,
                 TrainingKvFormula(args, <<result.architecture.hidden_dim,
                                           result.architecture.num_layers>>))
          /\ result.effective_batch_size =
                <<args.batch_size, args.grad_accum_steps>>
          /\ \A g \in 1..(MaxGradAccum + 1) :
                g > args.grad_accum_steps =>
                    QLeq(TrainingKv([args EXCEPT !.grad_accum_steps = g]),
                         TrainingKv(args))
    /\ InferenceCall =>
          /\ QEq(inf_locals(args).kv_cache,
                 InferenceKvFormula(args, <<result.architecture.hidden_dim,
                                            result.architecture.num_layers>>))
          /\ \A r \in 1..(MaxConcurrent + 1) :
                r > args.concurrent_requests =>
                    QLeq(InferenceKv(args),
                         InferenceKv([args EXCEPT !.concurrent_requests = r]))

\* a training estimate with a fractional effective batch: 8 / 3
C10_Witness ==
    /\ TrainingEstimate
    /\ pc = "returned"
    /\ args.batch_size = 8
    /\ args.grad_accum_steps = 3
    /\ result.effective_batch_size = <<8, 3>>

\* 95% of the capacity of the devices, in hundredths of a GB
UsableCapacity(gpu_vram, num_gpus) ==
    Round2(QMul(TotalAvailable(gpu_vram, num_gpus), 19, 20))

\* C11: the training estimate of scenario A (7B, full fine-tuning, batch 8,
\* 2048 tokens, no accumulation, one 24 GB device) resolves to hidden
\* dimension 4096 and 32 layers and reports weights 14.0, activations 28.0,
\* optimizer states 56.0, KV cache 8.59 and a total of 127.91 GB, the
\* base total being 106.59 GB and the usable capacity 22.8 GB; it does not fit.
C11_ScenarioA ==
    ((TrainingEstimate \/ TrainingSearch) /\ Called /\ args = ScenarioA) =>
        /\ result.error = "none"
        /\ result.architecture = [hidden_dim |-> 4096, num_layers |-> 32]
        /\ result.model_weights = 1400
        /\ result.activation_memory = 2800
        /\ result.optimizer_states = 5600
        /\ result.kv_cache = 859
        /\ result.total_vram = 12791
        /\ result.needed_vram = 12791
        /\ Round2(TrainingSum(ft_locals(args))) = 10659
        /\ UsableCapacity(args.gpu_vram, args.num_gpus) = 2280
        /\ ~result.will_it_fit

\* the estimate of scenario A has returned
C11_Witness ==
    /\ TrainingEstimate
    /\ pc = "returned"
    /\ args = ScenarioA
    /\ result.needed_vram = 12791

\* C12: the inference estimate of scenario B (6.85B at 8 bits, batch 32,
\* 2048 tokens, one request at a time, a reasoning model, one 24 GB device)
\* resolves to the 7B architecture (hidden dimension 4096, 32 layers) and
\* reports weights 6.85, activations 1.37, KV cache 17.18, base total 25.40,
\* overhead factor 1.25 and a total of 31.75 GB; it does not fit, at a
\* utilisation of about 132% (132.29).
C12_ScenarioB ==
    ((InferenceEstimate \/ InferenceSearch) /\ Called /\ args = ScenarioB) =>
        /\ result.error = "none"
        /\ get_closest_architecture(args.params_billions) = <<"7", "B">>
        /\ result.architecture = [hidden_dim |-> 4096, num_layers |-> 32]
        /\ result.model_weights = 685
        /\ result.activation_memory = 137
        /\ result.kv_cache = 1718
        /\ result.base_vram = 2540
        /\ result.overhead_factor = <<5, 4>>
        /\ result.total_vram = 3175
        /\ result.needed_vram = 3175
        /\ result.vram_usage_percent = 13229
        /\ ~result.will_it_fit

\* the estimate of scenario B has returned
C12_Witness ==
    /\ InferenceEstimate
    /\ pc = "returned"
    /\ args = ScenarioB
    /\ result.needed_vram = 3175

\* what a step has added to the evaluated candidates and to the suggestions
NewEvaluated == SubSeq(evaluated', Len(evaluated) + 1, Len(evaluated'))

NewSuggestions == SubSeq(suggestions', Len(suggestions) + 1, Len(suggestions'))

\* the step in which a search runs the axis at position here
AxisStep(here) == (TrainingSearch \/ InferenceSearch) /\ pc = here /\ pc' # here

\* the configuration c, re-estimated, fits
Fits(c) == EstimateOf(c).error = "none" /\ EstimateOf(c).will_it_fit

IsPrefix(s, t) == Len(s) <= Len(t) /\ s = SubSeq(t, 1, Len(s))

\* the suggestion of the given type for the candidate c
SuggestionFor(c, type) ==
    ("type" :> type) @@ (ValueKey[type] :> c[ChangedArgument[type]]) @@
    ("needed_vram" :> EstimateOf(c).needed_vram)

\* of the candidates, in their order, the step has evaluated a prefix none
\* of which fits but possibly the last, and has appended the suggestion of
\* that last one if it fits and nothing otherwise
FirstFitOnly(candidates, type) ==
    /\ IsPrefix(NewEvaluated, candidates)
    /\ \A i \in 1..(Len(NewEvaluated) - 1) : ~Fits(NewEvaluated[i])
    /\ NewSuggestions =
          IF NewEvaluated # <<>> /\ Fits(NewEvaluated[Len(NewEvaluated)])
          THEN <<SuggestionFor(NewEvaluated[Len(NewEvaluated)], type)>>
          ELSE <<>>

\* the candidates of the batch-size axis: floor(batch / 2), then 1
HalvedBatches(c) == Candidates(c, "batch_size", <<c.batch_size \div 2, 1>>)

\* the candidates of the sequence-length axis: floor(seq / 2), 1024, 512
ShorterSequences(c) ==
    Candidates(c, "seq_length", <<c.seq_length \div 2, 1024, 512>>)

\* C13: on the batch-size axis (floor(batch / 2), then 1) and on the
\* sequence-length axis (floor(seq / 2), 1024, 512) of either search, the
\* suggestion reported is the first candidate in list order that fits: no
\* earlier candidate fits, no later candidate is evaluated, and the axis
\* contributes at most one suggestion.
C13_FirstFitPerAxis ==
    [][/\ AxisStep("batch_size") =>
            FirstFitOnly(HalvedBatches(args), "reduce_batch_size")
       /\ AxisStep("seq_length") =>
            FirstFitOnly(ShorterSequences(args), "reduce_sequence_length")]_vars

\* a training search over 4096 tokens that has reported 1024 tokens after
\* 2048 did not fit, 512 never tried
C13_Witness ==
    /\ TrainingSearch
    /\ pc = "returned"
    /\ args.seq_length > 2048
    /\ \E i \in DOMAIN suggestions :
          /\ suggestions[i].type = "reduce_sequence_length"
          /\ suggestions[i].sequence_length = 1024
    /\ \E i \in DOMAIN evaluated :
          evaluated[i] = [args EXCEPT !.seq_length = args.seq_length \div 2]
    /\ \A i \in DOMAIN evaluated : evaluated[i].seq_length # 512

\* values below v: one less, the half, 1 and 0
ShrunkValues(v) == {w \in {0, 1, v \div 2, v - 1} : 0 <= w /\ w < v}

\* the configurations c with one of the fields shrunk
Shrunk(c, fields) ==
    UNION {{[c EXCEPT ![f] = w] : w \in ShrunkValues(c[f])} : f \in fields}

\* the locals small of a shrunk workload against the locals large of the
\* workload itself: KV cache and total no larger, a fit kept
NeverLarger(small, large) ==
    /\ QLeq(small.kv_cache, large.kv_cache)
    /\ QLeq(small.total_vram, large.total_vram)
    /\ large.will_fit => small.will_fit

ShrunkTrainingNeverLarger(c, large) ==
    \A d \in Shrunk(c, {"batch_size", "seq_length"}) :
        NeverLarger(ft_locals(d), large)

ShrunkInferenceNeverLarger(c, large) ==
    \A d \in Shrunk(c, {"batch_size", "seq_length", "concurrent_requests"}) :
        NeverLarger(inf_locals(d), large)

\* C14: for non-negative workloads the KV cache never grows when the batch
\* size, the sequence length or (in inference) the number of concurrent
\* requests shrinks with everything else unchanged, and so neither does the
\* needed VRAM: a workload that fits still fits after any such shrinking.
C14_KvMonotone ==
    /\ (TrainingEstimate /\ result.error = "none") =>
            ShrunkTrainingNeverLarger(args, ft_locals(args))
    /\ (InferenceEstimate /\ result.error = "none") =>
            ShrunkInferenceNeverLarger(args, inf_locals(args))

\* an inference estimate of concurrent requests that does not fit while the
\* same workload with one request at a time does
C14_Witness ==
    /\ InferenceEstimate
    /\ pc = "returned"
    /\ args.concurrent_requests > 1
    /\ ~result.will_it_fit
    /\ Fits([args EXCEPT !.concurrent_requests = 1])

EngineCall ==
    TrainingEstimate \/ TrainingSearch \/ InferenceEstimate \/ InferenceSearch

LocalsOf(c) ==
    IF TrainingSearch \/ TrainingEstimate THEN ft_locals(c) ELSE inf_locals(c)

\* nothing but the device count can make the estimate of c fail
OtherwiseValid(c) ==
    IF TrainingSearch \/ TrainingEstimate
    THEN /\ c.finetuning_method \in DOMAIN FINETUNING_METHODS
         /\ c.grad_accum_steps # 0
    ELSE c.precision \in DOMAIN PRECISION_BYTES

\* the share is the total over the devices, the total itself without devices
SharePerGpu(v, num_gpus) ==
    IF num_gpus > 0
    THEN QEq(QMul(v.vram_per_gpu, num_gpus, 1), v.total_vram)
    ELSE QEq(v.vram_per_gpu, v.total_vram)

\* C16: an estimate for zero devices does not fail with a division error:
\* it returns, and its per-device share is the unmodified total; for a
\* positive device count the share is the total divided by the count.
C16_ZeroGpuPolicy ==
    /\ (EngineCall /\ Called /\ args.num_gpus = 0 /\ OtherwiseValid(args)) =>
          /\ result.error = "none"
          /\ result.vram_per_gpu = result.total_vram
    /\ (EngineCall /\ result.error = "none") =>
          SharePerGpu(LocalsOf(args), args.num_gpus)

\* a training estimate for zero devices that has returned
C16_Witness ==
    /\ TrainingEstimate
    /\ pc = "returned"
    /\ args.num_gpus = 0
    /\ result.vram_per_gpu = result.total_vram
    /\ result.vram_per_gpu > 0

\* c with each of the methods but its own, in their order
OtherMethods(c, methods) ==
    Candidates(c, "finetuning_method",
               SelectSeq(methods, LAMBDA m : m # c.finetuning_method))

\* the suggestions of the candidates that fit, in their order
FittingSuggestions(candidates, type) ==
    [i \in DOMAIN SelectSeq(candidates, Fits) |->
        SuggestionFor(SelectSeq(candidates, Fits)[i], type)]

\* the step has evaluated all the candidates and appended every one that fits
EveryFitRecorded(candidates, type) ==
    /\ ~result.will_it_fit
    /\ NewEvaluated = candidates
    /\ NewSuggestions = FittingSuggestions(candidates, type)

\* C17, as claimed: on the method axis of the training search every method
\* of full, lora, qlora (table order) other than the current one is
\* evaluated with all other parameters unchanged, and each one that fits
\* is recorded as a method-change suggestion.
C17_EveryOtherMethod ==
    [][AxisStep("method") =>
          EveryFitRecorded(OtherMethods(args, <<"full", "lora", "qlora">>),
                           "change_method")]_vars

\* C17, amended: on the method axis of the training search, which is run
\* only when the original configuration does not fit, every method of lora,
\* qlora (in that order) other than the current one is evaluated with all
\* other parameters unchanged, and each one that fits is recorded as a
\* method-change suggestion, without a stop at the first fit; full is never
\* a candidate.
C17_AdapterMethods ==
    [][AxisStep("method") =>
          EveryFitRecorded(OtherMethods(args, <<"lora", "qlora">>),
                           "change_method")]_vars

\* a search from full fine-tuning that has recorded both lora and qlora
C17_Witness ==
    /\ TrainingSearch
    /\ pc = "returned"
    /\ args.finetuning_method = "full"
    /\ Len(suggestions) >= 2
    /\ suggestions[1].type = "change_method" /\ suggestions[1].method = "lora"
    /\ suggestions[2].type = "change_method" /\ suggestions[2].method = "qlora"

\* the candidates are tried in their order up to the first that fits, which
\* alone is appended; all are tried when none fits
FirstFitSearch(candidates, type) ==
    /\ FirstFitOnly(candidates, type)
    /\ NewSuggestions = <<>> => NewEvaluated = candidates

\* c with each of the step counts 2, 4, 8 above its own, increasing
LargerSteps(c) ==
    Candidates(c, "grad_accum_steps",
               SelectSeq(<<2, 4, 8>>, LAMBDA g : g > c.grad_accum_steps))

\* C18: the grad-accum axis of the training search tries the values of
\* 2, 4, 8 strictly greater than the current step count in increasing
\* order, records only the first that fits and then stops; with a current
\* step count of 8 or more it tries nothing and suggests nothing.
C18_GradAccumAxis ==
    [][AxisStep("grad_accum") =>
          /\ FirstFitSearch(LargerSteps(args), "increase_grad_accum")
          /\ args.grad_accum_steps >= 8 =>
                NewEvaluated = <<>> /\ NewSuggestions = <<>>]_vars

\* a search without accumulation that has suggested 4 steps after 2 steps
\* did not fit, 8 steps never tried
C18_Witness ==
    /\ TrainingSearch
    /\ pc = "returned"
    /\ args.grad_accum_steps = 1
    /\ \E i \in DOMAIN suggestions :
          /\ suggestions[i].type = "increase_grad_accum"
          /\ suggestions[i].grad_accum_steps = 4
    /\ \E i \in DOMAIN evaluated : evaluated[i].grad_accum_steps = 2
    /\ \A i \in DOMAIN evaluated : evaluated[i].grad_accum_steps # 8

\* the arguments in which the candidate c differs from the original
ChangedArguments(c) == {f \in DOMAIN args : c[f] # args[f]}

\* the position of each suggestion type in the order of the loops
AxisPriority ==
    [change_method          |-> 1,
     increase_grad_accum    |-> 2,
     reduce_batch_size      |-> 3,
     reduce_sequence_length |-> 4,
     more_quantization      |-> 5,
     increase_gpus          |-> 6]

InPriorityOrder(list) ==
    \A i, j \in DOMAIN list :
        i < j => AxisPriority[list[i].type] <= AxisPriority[list[j].type]

\* C19, as claimed: every candidate a search has evaluated differs from the
\* original configuration in exactly one parameter, and the list is in the
\* priority order of the axes.
C19_ExactlyOneChange ==
    (TrainingSearch \/ InferenceSearch) =>
        /\ \A i \in DOMAIN evaluated :
              Cardinality(ChangedArguments(evaluated[i])) = 1
        /\ InPriorityOrder(suggestions)

\* C19, amended: every candidate a search has evaluated differs from the
\* original configuration in at most one parameter, so nothing found on an
\* earlier axis is carried into a later one; it is the original configuration
\* itself only as the candidate 1024 of a sequence length of 1024 or as the
\* doubled count of zero devices; and the list is in the priority order of
\* the axes: method, grad-accum, batch size, sequence length, (in inference,
\* quantization,) GPU count.
C19_AtMostOneChange ==
    (TrainingSearch \/ InferenceSearch) =>
        /\ \A i \in DOMAIN evaluated :
              /\ Cardinality(ChangedArguments(evaluated[i])) <= 1
              /\ evaluated[i] = args =>
                    args.seq_length = 1024 \/ args.num_gpus = 0
        /\ InPriorityOrder(suggestions)

\* a training search that has suggested a smaller batch and then more
\* devices, each against the original configuration
C19_Witness ==
    /\ TrainingSearch
    /\ pc = "returned"
    /\ Len(evaluated) >= 5
    /\ \E i, j \in DOMAIN suggestions :
          /\ i < j
          /\ suggestions[i].type = "reduce_batch_size"
          /\ suggestions[j].type = "increase_gpus"
          /\ ApplySuggestion(args, suggestions[j]).batch_size = args.batch_size

\* c with one device more, then with twice the devices, below 8 devices
MoreGpus(c) ==
    IF c.num_gpus < 8
    THEN Candidates(c, "num_gpus", <<c.num_gpus + 1, c.num_gpus * 2>>)
    ELSE <<>>

\* C20: the GPU-count axis of either search, only when the current count
\* is below 8, tries count + 1 and then count * 2, reports the first that
\* fits and stops; with a count of 8 or more it tries nothing and suggests
\* nothing.
C20_GpuCountAxis ==
    [][AxisStep("num_gpus") =>
          /\ FirstFitSearch(MoreGpus(args), "increase_gpus")
          /\ args.num_gpus >= 8 =>
                NewEvaluated = <<>> /\ NewSuggestions = <<>>]_vars

\* a search on 3 devices that has suggested 6 after 4 did not fit
C20_Witness ==
    /\ TrainingSearch \/ InferenceSearch
    /\ pc = "returned"
    /\ args.num_gpus = 3
    /\ suggestions # <<>>
    /\ suggestions[Len(suggestions)].type = "increase_gpus"
    /\ suggestions[Len(suggestions)].num_gpus = 6
    /\ \E i \in DOMAIN evaluated : evaluated[i].num_gpus = 4

\* the activation memory that enters the base total of the locals k: a
\* quarter of the activation-factor value under gradient checkpointing
RetainedActivation(k) ==
    IF k.use_gradient_checkpointing
    THEN calculate_gradient_checkpointing_savings(k.activation_memory)
    ELSE k.activation_memory

ReportsRetainedActivation(k) ==
    result.activation_memory = Round2(RetainedActivation(k))

\* C21, as claimed: the activation memory a training estimate reports is the
\* (under lora and qlora checkpoint-reduced) value that enters the base
\* total, and the total is 1.2 times the sum of the weights, these
\* activations, the optimizer states, the KV cache and the adapter share.
C21_BreakdownConsistency ==
    TrainingCall =>
        /\ ReportsRetainedActivation(ft_locals(args))
        /\ TrainingOverheadOnce(ft_locals(args))

\* the utilisation total / capacity * 100 is at most 95
AtMostNinetyFivePercent(total, capacity) ==
    QLeq(QMul(total, 100, 1), QMul(capacity, 95, 1))

\* p hundredths of a percent is total / capacity * 100 rounded to two
\* places: |p / 100 - total / capacity * 100| <= 0.005
IsRoundedPercent(p, total, capacity) ==
    /\ QLeq(QMul(capacity, 2 * p - 1, 1), QMul(QMul(total, 10000, 1), 2, 1))
    /\ QLeq(QMul(QMul(total, 10000, 1), 2, 1), QMul(capacity, 2 * p + 1, 1))

UtilisationRule(total, capacity) ==
    /\ IsRoundedPercent(result.vram_usage_percent, total, capacity)
    /\ result.will_it_fit <=> AtMostNinetyFivePercent(total, capacity)

\* C22: the reported utilisation is the final total over the unscaled
\* capacity gpu_vram * num_gpus, times 100, and for positive capacity the
\* estimate fits exactly when the unrounded utilisation is at most 95%: a
\* utilisation above 95% and up to 100% is reported as not fitting.
C22_FitUtilisation ==
    (Estimated /\ args.gpu_vram * args.num_gpus > 0) =>
        UtilisationRule(TotalOf(args),
                        TotalAvailable(args.gpu_vram, args.num_gpus))

\* an estimate that uses more than 95% and no more than 100% of the
\* capacity, reported as not fitting
C22_Witness ==
    /\ Estimated
    /\ pc = "returned"
    /\ args.gpu_vram * args.num_gpus > 0
    /\ result.vram_usage_percent > 9500
    /\ result.vram_usage_percent <= 10000
    /\ args.batch_size >= 1
    /\ args.seq_length >= 1
    /\ ~result.will_it_fit

\* a command line with a custom parameter count and without both overrides
CliCustomCount ==
    /\ CliCall
    /\ args.custom_params # <<>>
    /\ ~(args.hidden_dim # <<>> /\ args.num_layers # <<>>)

\* C23, as claimed: for a custom parameter count without explicit
\* dimensions the command-line variant uses the architecture that
\* get_closest_architecture gives for the count: the smallest bucket at or
\* above it, the largest one beyond the table.
C23_CliCeilingMatch ==
    CliCustomCount =>
        <<result.hidden_dim, result.num_layers>> =
            get_architecture_details(args.custom_params[1])

\* C24, as claimed: one call of a search evaluates at most 10 candidate
\* configurations across all its axes.
C24_AtMostTenTrials ==
    (TrainingSearch \/ InferenceSearch) => Len(evaluated) <= 10

\* C24, amended: one call of a search evaluates at most 12 candidate
\* configurations across all its axes: at most 2 methods, 3 step counts,
\* 2 batch sizes, 3 sequence lengths and 2 device counts in the training
\* search, at most 2 batch sizes, 3 sequence lengths, 2 precisions and 2
\* device counts (9 in all) in the inference search.
C24_AtMostTwelveTrials ==
    /\ TrainingSearch => Len(evaluated) <= 12
    /\ InferenceSearch => Len(evaluated) <= 9

\* a training search that has returned after 12 candidates
C24_Witness ==
    /\ TrainingSearch
    /\ pc = "returned"
    /\ Len(evaluated) = 12

\* a valid original workload: batch, length, devices and (in training)
\* accumulation steps at least 1
ValidOriginal(c) ==
    /\ c.batch_size >= 1
    /\ c.seq_length >= 1
    /\ c.num_gpus >= 1
    /\ TrainingSearch => c.grad_accum_steps >= 1

\* the suggestion s moves its argument of the original c in the direction
\* its type names
NamedDirection(c, s) ==
    /\ s.type = "reduce_batch_size" =>
          1 <= s.batch_size /\ s.batch_size < c.batch_size
    /\ s.type = "reduce_sequence_length" =>
          1 <= s.sequence_length /\ s.sequence_length < c.seq_length
    /\ s.type = "increase_gpus" => s.num_gpus > c.num_gpus
    /\ s.type = "increase_grad_accum" =>
          s.grad_accum_steps > c.grad_accum_steps

\* C25: for a valid original workload every reported suggestion moves its
\* parameter in the named direction and stays valid: a batch-size suggestion
\* has 1 <= new batch < original batch, a sequence-length suggestion
\* 1 <= new length < original length (the candidate 1024 is never reported
\* when it is not below the original), a GPU suggestion a larger count and
\* a grad-accum suggestion more steps.
C25_NamedDirection ==
    ((TrainingSearch \/ InferenceSearch) /\ ValidOriginal(args)) =>
        \A i \in DOMAIN suggestions : NamedDirection(args, suggestions[i])

\* a search over no more than 1024 tokens that has tried the candidate 1024
\* and has returned suggestions, none of them for 1024 tokens
C25_Witness ==
    /\ TrainingSearch \/ InferenceSearch
    /\ pc = "returned"
    /\ ValidOriginal(args)
    /\ args.seq_length <= 1024
    /\ \E i \in DOMAIN evaluated : evaluated[i].seq_length = 1024
    /\ suggestions # <<>>
    /\ \E i \in DOMAIN suggestions : suggestions[i].type = "increase_gpus"

\* the exact total of the workload c under the method m
MethodTotal(c, m) == ft_locals([c EXCEPT !.finetuning_method = m]).total_vram

\* qlora needs no more than lora, lora no more than full
NestedTotals(qlora, lora, full) == QLeq(qlora, lora) /\ QLeq(lora, full)

\* the search has suggested a change to the method m
SuggestsMethod(m) ==
    \E i \in DOMAIN suggestions :
        suggestions[i].type = "change_method" /\ suggestions[i].method = m

\* C26: for any fixed workload the needed VRAM satisfies qlora <= lora <=
\* full, so a training search that suggests a change to lora also suggests
\* one to qlora, and full, which the search never tries, does not fit when
\* the original configuration does not.
C26_NestedMethods ==
    /\ (TrainingEstimate /\ result.error = "none") =>
          NestedTotals(MethodTotal(args, "qlora"), MethodTotal(args, "lora"),
                       MethodTotal(args, "full"))
    /\ (TrainingSearch /\ result.error = "none") =>
          /\ SuggestsMethod("lora") => SuggestsMethod("qlora")
          /\ ~result.will_it_fit =>
                ~Fits([args EXCEPT !.finetuning_method = "full"])

\* a search from lora that has suggested qlora, full fitting no better
C26_Witness ==
    /\ TrainingSearch
    /\ pc = "returned"
    /\ args.finetuning_method = "lora"
    /\ SuggestsMethod("qlora")
    /\ ~Fits([args EXCEPT !.finetuning_method = "full"])

=============================================================================
